---- MODULE Spec2Model ----
(***************************************************************************)
(* Poetry kiosk (framework/kiosk.py): the PoetryKioskApp run loop, its     *)
(* touch edge detection, the backlight fade transition and the playlist    *)
(* position, as a state machine.  One action per loop iteration of run(),  *)
(* one per branch of the loop.                                             *)
(*                                                                         *)
(* Poem ids are 1..n; id 0 stands for None.  A layout is represented by    *)
(* its number of pages (0 stands for None).  The tick counter is the       *)
(* MicroPython time.ticks_ms(), which wraps at TicksPeriod; all times are  *)
(* scaled down so that the period fits the model.                          *)
(* _touch_count and _last_touch_log_ms only feed log lines and are left    *)
(* out.                                                                    *)
(***************************************************************************)
EXTENDS Integers, Sequences, FiniteSets, TLC

\* ---- bounds of the model ----
MaxPoems == 2
MaxPages == 2
MaxStep == 2
TicksPeriod == 6

\* ---- program constants ----
SleepMs == 1000

DwellSet == {0, 2}
FadeSet == {0, 2}
BacklightPairs == {<<0, 100>>}

VARIABLES
  pc,               \* position of run(): "start", "idle", "loop", "crashed"
  cfg,              \* KioskConfig
  playlist,         \* self.playlist
  validIds,         \* ids whose load_poem + validation + paginate succeed
  play_index,       \* self.play_index
  state,            \* self._state
  deadline_ms,      \* self._deadline_ms
  poem,             \* self._poem (id of the loaded poem, 0 = None)
  layout,           \* self._layout (number of pages, 0 = None)
  page_i,           \* self._page_i
  touch_was_down,   \* self._touch_was_down
  touch_state,      \* presto.touch.state as of the last poll
  direction,        \* transition._direction
  t0,               \* transition._t0
  clock,            \* last value returned by ticks_ms()
  now,              \* run()'s local `now` of the last iteration
  backlight,        \* last level handed to presto.set_backlight (0..100)
  screen,           \* what the last draw / status call put on the screen
  obs,              \* what the last iteration did (observer, not program state)
  polls,            \* the polls of _touch_event so far, last PollWindow of them
  call,             \* a library function called on its own: its arguments
  ret               \* ... and what it returned

vars == <<pc, cfg, playlist, validIds, play_index, state, deadline_ms, poem,
          layout, page_i, touch_was_down, touch_state, direction, t0, clock,
          now, backlight, screen, obs, polls, call, ret>>

\* ---- small utils ----

Max(a, b) == IF a >= b THEN a ELSE b
Min(a, b) == IF a <= b THEN a ELSE b

\* int(x) of Python: truncation toward zero of n/d, d > 0
Trunc(n, d) == IF n >= 0 THEN n \div d ELSE -((-n) \div d)

\* ticks_ms(): the counter d ms after the reading c
ticks_ms(c, d) == (c + d) % TicksPeriod

\* BacklightFadeTransition.__init__: duration_ms = max(1, int(duration_ms))
duration_ms(c) == Max(1, c.fade_ms)

\* clamp01((now_ms - _t0) / duration_ms), as the numerator k of k / duration
clamp01(diff, dur) == IF diff < 0 THEN 0 ELSE IF diff > dur THEN dur ELSE diff

\* an easing with the sign of the cubic term wrong: t*t*(3 + 2t)
smoothstep_overshoot(k, dur) == k * k * (3 * dur + 2 * k)

\* smoothstep(t) = t*t*(3 - 2t) for t = k/dur, as a numerator over dur^3
smoothstep(k, dur) == k * k * (3 * dur - 2 * k)

\* int(lerp(a, b, eased)) for eased = e / dur^3
lerp(a, b, e, dur) == Trunc(a * dur * dur * dur + (b - a) * e, dur * dur * dur)

\* set_backlight_0_100: v = max(0, min(100, int(value)))
set_backlight_0_100(v) == Max(0, Min(100, v))

\* BacklightFadeTransition.update: the brightness applied
UpdateBrightness(c, dir, start, now_ms) ==
  LET dur == duration_ms(c)
      k == clamp01(now_ms - start, dur)
      e == smoothstep(k, dur)
  IN IF dir = "in" THEN set_backlight_0_100(lerp(c.backlight_min, c.backlight_max, e, dur))
     ELSE set_backlight_0_100(lerp(c.backlight_max, c.backlight_min, e, dur))

\* an update that never reports the end: t > 1.0
UpdateDone_strict(c, start, now_ms) ==
  clamp01(now_ms - start, duration_ms(c)) > duration_ms(c)

\* BacklightFadeTransition.update: the return value, t >= 1.0
UpdateDone(c, start, now_ms) ==
  clamp01(now_ms - start, duration_ms(c)) >= duration_ms(c)

\* PoemPaginator.paginate as far as the run loop uses it: len(pages) of a poem
NumPages(id) == 1 + (id % MaxPages)

\* PoetryKioskApp._next_poem
next_poem(i, n) == IF i + 1 >= n THEN 0 ELSE i + 1

\* PoetryKioskApp._page_advance_wrap
page_advance_wrap(p, n) == (p + 1) % n

\* _touch_event firing on the level instead of the edge
touch_fired_level(down, was) == down

\* PoetryKioskApp._touch_event: fired = down and not self._touch_was_down
touch_fired(down, was) == down /\ ~was

\* the dwell test with > instead of >=
deadline_reached_strict(now_ms, dl) == now_ms > dl

\* run(), DISPLAY: if now >= self._deadline_ms
deadline_reached(now_ms, dl) == now_ms >= dl

\* LOAD going straight to DISPLAY, without the fade-in
state_after_load_nofade(ok) == "DISPLAY"

\* run(), LOAD: the state after _load_current and _render_current_page
state_after_load(ok) == "FADE_IN"

\* PoetryKioskApp._load_current: does the try block succeed for this id
load_succeeds(id, valid) == id \in valid

\* the last PollWindow polls of _touch_event, oldest first: <<down, fired>>
TapPattern == <<TRUE, TRUE, FALSE, TRUE>>
PollWindow == Len(TapPattern) + 1
Record(log, down, fired) ==
  LET l == Append(log, <<down, fired>>)
  IN IF Len(l) > PollWindow THEN Tail(l) ELSE l

NoCall == [op |-> "none"]

NoObs == [step |-> "none", polled |-> FALSE, fired |-> FALSE, drew |-> FALSE,
          attempt |-> -1, loaded |-> FALSE]

\* ---- construction ----

Init ==
  /\ pc = "start"
  /\ \E d \in DwellSet, f \in FadeSet, b \in BacklightPairs :
       cfg = [dwell_ms |-> d, fade_ms |-> f, backlight_min |-> b[1], backlight_max |-> b[2]]
  /\ \E n \in 0..MaxPoems : playlist = [i \in 1..n |-> i]
  /\ validIds \in SUBSET {playlist[i] : i \in 1..Len(playlist)}
  /\ play_index = 0
  /\ state = "LOAD"
  /\ deadline_ms = 0
  /\ poem = 0
  /\ layout = 0
  /\ page_i = 0
  /\ touch_was_down = FALSE
  /\ touch_state = FALSE
  /\ direction = "in"
  /\ t0 = 0
  /\ clock \in 0..(TicksPeriod - 1)
  /\ now = clock
  /\ backlight = 0
  /\ screen = [kind |-> "blank"]
  /\ obs = NoObs
  /\ polls = <<>>
  /\ call = NoCall
  /\ ret = NoCall

\* ---- run(): before the loop ----

\* _show_empty_library leaving the backlight at backlight_min
RunEmpty_dark ==
  /\ pc = "start"
  /\ Len(playlist) = 0
  /\ backlight' = set_backlight_0_100(cfg.backlight_min)
  /\ screen' = [kind |-> "status"]
  /\ pc' = "idle"
  /\ obs' = [NoObs EXCEPT !.step = "empty"]
  /\ UNCHANGED <<cfg, playlist, validIds, play_index, state, deadline_ms, poem, layout,
                 page_i, touch_was_down, touch_state, direction, t0, clock, now, polls, call, ret>>

\* if not self.playlist: self._show_empty_library(); while True: sleep
RunEmpty ==
  /\ pc = "start"
  /\ Len(playlist) = 0
  /\ backlight' = set_backlight_0_100(cfg.backlight_max)
  /\ screen' = [kind |-> "status"]
  /\ pc' = "idle"
  /\ obs' = [NoObs EXCEPT !.step = "empty"]
  /\ UNCHANGED <<cfg, playlist, validIds, play_index, state, deadline_ms, poem, layout,
                 page_i, touch_was_down, touch_state, direction, t0, clock, now, polls, call, ret>>

\* while True: time.sleep(1)
IdleSleep ==
  /\ pc = "idle"
  /\ clock' = ticks_ms(clock, SleepMs)
  /\ obs' = [NoObs EXCEPT !.step = "sleep"]
  /\ UNCHANGED <<pc, cfg, playlist, validIds, play_index, state, deadline_ms, poem, layout,
                 page_i, touch_was_down, touch_state, direction, t0, now, backlight, screen, polls,
                 call, ret>>

\* set_backlight_0_100(self.presto, self.cfg.backlight_min), then enter the loop
RunStart ==
  /\ pc = "start"
  /\ Len(playlist) > 0
  /\ backlight' = set_backlight_0_100(cfg.backlight_min)
  /\ pc' = "loop"
  /\ obs' = [NoObs EXCEPT !.step = "start"]
  /\ UNCHANGED <<cfg, playlist, validIds, play_index, state, deadline_ms, poem, layout,
                 page_i, touch_was_down, touch_state, direction, t0, clock, now, screen, polls,
                 call, ret>>

\* ---- run(): one loop iteration per action ----

\* PoetryKioskApp._render_current_page: the screen after the call
render_current_page(lay, pm, pg, idx, bl, old) ==
  IF lay = 0 \/ pm = 0 THEN old
  ELSE [kind |-> "poem", photo |-> playlist[idx + 1], text |-> pm, page |-> pg,
        backlight |-> bl]

\* state LOAD.  d: ms since the last clock reading, d2: ms the load and the
\* render take before transition.start reads the clock
LoadStep(d, d2) ==
  /\ pc = "loop" /\ state = "LOAD"
  /\ now' = ticks_ms(clock, d)
  /\ backlight' = set_backlight_0_100(cfg.backlight_min)
  /\ LET id == playlist[play_index + 1]
         ok == load_succeeds(id, validIds)
     IN /\ IF ok
           THEN /\ poem' = id
                /\ layout' = NumPages(id)
                /\ page_i' = 0
                /\ play_index' = play_index
           ELSE /\ play_index' = next_poem(play_index, Len(playlist))
                /\ UNCHANGED <<poem, layout, page_i>>
        /\ screen' = render_current_page(layout', poem', page_i', play_index', backlight', screen)
        /\ obs' = [step |-> "load", polled |-> FALSE, fired |-> FALSE,
                   drew |-> (layout' # 0 /\ poem' # 0),
                   attempt |-> play_index, loaded |-> ok]
        /\ state' = state_after_load(ok)
  /\ direction' = "in"
  /\ t0' = ticks_ms(now', d2)
  /\ clock' = t0'
  /\ UNCHANGED <<pc, cfg, playlist, validIds, deadline_ms, touch_was_down, touch_state, polls,
                 call, ret>>

\* state FADE_IN
FadeInStep(d) ==
  /\ pc = "loop" /\ state = "FADE_IN"
  /\ now' = ticks_ms(clock, d)
  /\ clock' = now'
  /\ backlight' = UpdateBrightness(cfg, direction, t0, now')
  /\ IF UpdateDone(cfg, t0, now')
     THEN /\ deadline_ms' = now' + cfg.dwell_ms
          /\ state' = "DISPLAY"
     ELSE UNCHANGED <<deadline_ms, state>>
  /\ obs' = [obs EXCEPT !.step = "fade_in", !.polled = FALSE, !.fired = FALSE, !.drew = FALSE]
  /\ UNCHANGED <<pc, cfg, playlist, validIds, play_index, poem, layout, page_i,
                 touch_was_down, touch_state, direction, t0, screen, polls, call, ret>>

\* state DISPLAY.  down: touch.state after touch.poll()
DisplayStep(d, d2, down) ==
  /\ pc = "loop" /\ state = "DISPLAY"
  /\ now' = ticks_ms(clock, d)
  /\ touch_state' = down
  /\ touch_was_down' = down
  /\ polls' = Record(polls, down, touch_fired(down, touch_was_down))
  /\ LET fired == touch_fired(down, touch_was_down)
     IN IF fired /\ layout = 0
        THEN \* self._layout["pages"] on None raises TypeError: run() ends
             /\ pc' = "crashed"
             /\ clock' = now'
             /\ obs' = [obs EXCEPT !.step = "display", !.polled = TRUE, !.fired = TRUE,
                                   !.drew = FALSE]
             /\ UNCHANGED <<state, deadline_ms, page_i, screen, direction, t0>>
        ELSE /\ pc' = pc
             /\ page_i' = IF fired THEN page_advance_wrap(page_i, layout) ELSE page_i
             /\ deadline_ms' = IF fired THEN now' + cfg.dwell_ms ELSE deadline_ms
             /\ screen' = IF fired
                          THEN render_current_page(layout, poem, page_i', play_index,
                                                   backlight, screen)
                          ELSE screen
             /\ obs' = [obs EXCEPT !.step = "display", !.polled = TRUE, !.fired = fired,
                                   !.drew = (fired /\ layout # 0 /\ poem # 0)]
             /\ IF deadline_reached(now', deadline_ms')
                THEN /\ state' = "FADE_OUT"
                     /\ direction' = "out"
                     /\ t0' = ticks_ms(now', d2)
                     /\ clock' = t0'
                ELSE /\ clock' = now'
                     /\ UNCHANGED <<state, direction, t0>>
  /\ UNCHANGED <<cfg, playlist, validIds, play_index, poem, layout, backlight, call, ret>>

\* FADE_OUT handling the touch as DISPLAY does
FadeOutStep_touch(d) ==
  /\ pc = "loop" /\ state = "FADE_OUT"
  /\ now' = ticks_ms(clock, d)
  /\ clock' = now'
  /\ backlight' = UpdateBrightness(cfg, direction, t0, now')
  /\ \E down \in BOOLEAN :
       LET fired == touch_fired(down, touch_was_down) /\ layout # 0
       IN /\ touch_state' = down
          /\ touch_was_down' = down
          /\ polls' = Record(polls, down, fired)
          /\ page_i' = IF fired THEN page_advance_wrap(page_i, layout) ELSE page_i
          /\ screen' = IF fired
                       THEN render_current_page(layout, poem, page_i', play_index,
                                                backlight', screen)
                       ELSE screen
          /\ obs' = [obs EXCEPT !.step = "fade_out", !.polled = TRUE, !.fired = fired,
                                !.drew = fired]
  /\ IF UpdateDone(cfg, t0, now')
     THEN /\ play_index' = next_poem(play_index, Len(playlist))
          /\ state' = "LOAD"
     ELSE UNCHANGED <<play_index, state>>
  /\ UNCHANGED <<pc, cfg, playlist, validIds, deadline_ms, poem, layout, direction, t0,
                 call, ret>>

\* state FADE_OUT
FadeOutStep(d) ==
  /\ pc = "loop" /\ state = "FADE_OUT"
  /\ now' = ticks_ms(clock, d)
  /\ clock' = now'
  /\ backlight' = UpdateBrightness(cfg, direction, t0, now')
  /\ IF UpdateDone(cfg, t0, now')
     THEN /\ play_index' = next_poem(play_index, Len(playlist))
          /\ state' = "LOAD"
     ELSE UNCHANGED <<play_index, state>>
  /\ obs' = [obs EXCEPT !.step = "fade_out", !.polled = FALSE, !.fired = FALSE, !.drew = FALSE]
  /\ UNCHANGED <<pc, cfg, playlist, validIds, deadline_ms, poem, layout, page_i,
                 touch_was_down, touch_state, direction, t0, screen, polls, call, ret>>

Load == \E d \in 0..MaxStep, d2 \in 0..MaxStep : LoadStep(d, d2)
FadeIn == \E d \in 0..MaxStep : FadeInStep(d)
Display == \E d \in 0..MaxStep, d2 \in 0..MaxStep, down \in BOOLEAN : DisplayStep(d, d2, down)
FadeOut == \E d \in 0..MaxStep : FadeOutStep(d)

Next == RunEmpty \/ IdleSleep \/ RunStart \/ Load \/ FadeIn \/ Display \/ FadeOut

Spec == Init /\ [][Next]_vars

\* The kiosk with a longer library: no poem or MaxPoems + 1 of them, shown
\* with the shortest dwell and fade.
LongInit ==
  /\ pc = "start"
  /\ \E b \in BacklightPairs :
       cfg = [dwell_ms |-> 0, fade_ms |-> 0, backlight_min |-> b[1], backlight_max |-> b[2]]
  /\ \E n \in {0, MaxPoems + 1} : playlist = [i \in 1..n |-> i]
  /\ validIds \in SUBSET {playlist[i] : i \in 1..Len(playlist)}
  /\ play_index = 0
  /\ state = "LOAD"
  /\ deadline_ms = 0
  /\ poem = 0
  /\ layout = 0
  /\ page_i = 0
  /\ touch_was_down = FALSE
  /\ touch_state = FALSE
  /\ direction = "in"
  /\ t0 = 0
  /\ clock \in 0..(TicksPeriod - 1)
  /\ now = clock
  /\ backlight = 0
  /\ screen = [kind |-> "blank"]
  /\ obs = NoObs
  /\ polls = <<>>
  /\ call = NoCall
  /\ ret = NoCall

LongSpec == LongInit /\ [][Next]_vars

\* The loop never blocks and the tick counter keeps counting: iterations in
\* which the counter has moved on since the last reading keep happening.
Advancing ==
  \/ \E d \in 1..MaxStep, d2 \in 0..MaxStep : LoadStep(d, d2)
  \/ \E d \in 1..MaxStep : FadeInStep(d)
  \/ \E d \in 1..MaxStep, d2 \in 0..MaxStep, down \in BOOLEAN : DisplayStep(d, d2, down)
  \/ \E d \in 1..MaxStep : FadeOutStep(d)

\* The loop reads the counter many times per fade and per dwell, and far more
\* often than once per period of the counter: a fade or a dwell whose end
\* the counter keeps reaching is eventually seen to have ended.
FairSpec ==
  /\ Init /\ [][Next]_vars
  /\ WF_vars(RunStart) /\ WF_vars(Advancing)
  /\ SF_vars(FadeIn /\ state' = "DISPLAY")
  /\ SF_vars(Display /\ state' = "FADE_OUT")
  /\ SF_vars(FadeOut /\ state' = "LOAD")

\* ---- framework/text.py: strings are sequences of code points ----

NL == 10
SP == 32
QUESTION == 63

\* str.upper() on the characters of the model
Upper(c) == IF c >= 97 /\ c <= 122 THEN c - 32 ELSE c

\* width of a bitmap8 glyph (scaled down): "M" is wide, everything else narrow
GlyphWidth(c) == IF c = 77 THEN 2 ELSE 1

\* measure(s) = display.measure_text(s.upper(), scale, spacing): the glyphs
\* of the upper-cased string, each followed by the letter spacing
RECURSIVE measure(_, _, _)
measure(str, scale, spacing) ==
  IF str = <<>> THEN 0
  ELSE (GlyphWidth(Upper(Head(str))) + spacing) * scale + measure(Tail(str), scale, spacing)

\* a fit test that lets one pixel too many through
fits_one_over(str, px, scale, spacing) == measure(str, scale, spacing) <= px + 1

\* wrap_words: `if measure(...) <= max_line_px`
fits(str, px, scale, spacing) == measure(str, scale, spacing) <= px

\* _REPLACEMENTS
Replacement(c) ==
  CASE c \in {8211, 8212, 8722} -> <<45>>
    [] c \in {8220, 8221, 8222} -> <<34>>
    [] c \in {8216, 8217} -> <<39>>
    [] c = 8230 -> <<46, 46, 46>>
    [] c = 160 -> <<SP>>
    [] OTHER -> <<>>

\* a filter that lets the whole of Latin-1 through
sanitize_char_latin1(ch) ==
  IF Replacement(ch) # <<>> THEN Replacement(ch)
  ELSE IF ch = NL \/ (32 <= ch /\ ch <= 255) THEN <<ch>>
  ELSE <<QUESTION>>

\* sanitize_for_bitmap8: what one character of the input contributes
sanitize_char(ch) ==
  IF Replacement(ch) # <<>> THEN Replacement(ch)
  ELSE IF ch = NL \/ (32 <= ch /\ ch <= 126) THEN <<ch>>
  ELSE <<QUESTION>>

\* sanitize_for_bitmap8
RECURSIVE sanitize_for_bitmap8(_)
sanitize_for_bitmap8(str) ==
  IF str = <<>> THEN <<>>
  ELSE sanitize_char(Head(str)) \o sanitize_for_bitmap8(Tail(str))

\* position of the first sep in str, 0 if there is none
RECURSIVE Find(_, _, _)
Find(str, sep, i) ==
  IF i > Len(str) THEN 0 ELSE IF str[i] = sep THEN i ELSE Find(str, sep, i + 1)

\* str.split(sep)
RECURSIVE str_split(_, _)
str_split(str, sep) ==
  LET k == Find(str, sep, 1)
  IN IF k = 0 THEN <<str>>
     ELSE <<SubSeq(str, 1, k - 1)>> \o str_split(SubSeq(str, k + 1, Len(str)), sep)

\* str.splitlines(): the lines between newlines, without an empty last one
splitlines(str) ==
  IF str = <<>> THEN <<>>
  ELSE LET p == str_split(str, NL)
       IN IF p[Len(p)] = <<>> THEN SubSeq(p, 1, Len(p) - 1) ELSE p

IsSpace(c) == c \in {9, 10, 11, 12, 13, 32}

\* str.split(): the maximal runs of non-whitespace
RECURSIVE str_split_ws(_, _)
str_split_ws(str, word) ==
  IF str = <<>> THEN (IF word = <<>> THEN <<>> ELSE <<word>>)
  ELSE IF IsSpace(Head(str))
       THEN (IF word = <<>> THEN <<>> ELSE <<word>>) \o str_split_ws(Tail(str), <<>>)
       ELSE str_split_ws(Tail(str), Append(word, Head(str)))

\* wrap_words: the count of "\n" at the end of text
RECURSIVE trailing_newlines(_)
trailing_newlines(str) ==
  IF str # <<>> /\ str[Len(str)] = NL
  THEN 1 + trailing_newlines(SubSeq(str, 1, Len(str) - 1))
  ELSE 0

\* wrap_words: `for ch in w`, from character i on; gives <<out, chunk>>
RECURSIVE CharWrap(_, _, _, _, _, _, _)
CharWrap(w, i, out, chunk, px, scale, spacing) ==
  IF i > Len(w) THEN <<out, chunk>>
  ELSE LET ch == <<w[i]>>
           cand2 == IF chunk = <<>> THEN ch ELSE chunk \o ch
       IN IF fits(cand2, px, scale, spacing)
          THEN CharWrap(w, i + 1, out, cand2, px, scale, spacing)
          ELSE CharWrap(w, i + 1, IF chunk # <<>> THEN Append(out, chunk) ELSE out, ch,
                        px, scale, spacing)

\* a flush that forgets the line in progress
flush_drop(out, current) == out

\* wrap_words: `if current: out.append(current)`
flush(out, current) == IF current # <<>> THEN Append(out, current) ELSE out

\* wrap_words: `for w in words`, from word i on; gives <<out, current>>
RECURSIVE WordWrap(_, _, _, _, _, _, _)
WordWrap(words, i, out, current, px, scale, spacing) ==
  IF i > Len(words) THEN <<out, current>>
  ELSE LET w == words[i]
           candidate == IF current = <<>> THEN w ELSE current \o <<SP>> \o w
           flushed == flush(out, current)
       IN IF fits(candidate, px, scale, spacing)
          THEN WordWrap(words, i + 1, out, candidate, px, scale, spacing)
          ELSE IF fits(w, px, scale, spacing)
          THEN WordWrap(words, i + 1, flushed, w, px, scale, spacing)
          ELSE LET r == CharWrap(w, 1, flushed, <<>>, px, scale, spacing)
               IN WordWrap(words, i + 1, r[1], r[2], px, scale, spacing)

\* wrap_words: `for raw_line in raw_lines`, from line i on
RECURSIVE LineWrap(_, _, _, _, _, _)
LineWrap(raw_lines, i, out, px, scale, spacing) ==
  IF i > Len(raw_lines) THEN out
  ELSE LET words == str_split_ws(raw_lines[i], <<>>)
           r == WordWrap(words, 1, out, <<>>, px, scale, spacing)
       IN LineWrap(raw_lines, i + 1,
                   IF words # <<>> THEN Append(r[1], r[2]) ELSE Append(r[1], <<>>),
                   px, scale, spacing)

\* wrap_words
wrap_words(text, width, margin, scale, spacing) ==
  IF text = <<>> THEN << <<>> >>
  ELSE LET max_line_px == width - (margin * 2)
       IN IF max_line_px <= 0 THEN << <<>> >>
          ELSE LineWrap(splitlines(text), 1, <<>>, max_line_px, scale, spacing)
               \o [k \in 1..trailing_newlines(text) |-> <<>>]

\* ---- framework/kiosk.py: PoemPaginator ----

line_height_bitmap8(scale, spacing_px) == (8 * scale) + spacing_px

\* paginate: lines_per_page = max(1, body_h_per_page // body_line_h)
lines_per_page(body_h_per_page, body_line_h) == Max(1, body_h_per_page \div body_line_h)

\* pages cut one line short: body_lines[i : i + lines_per_page - 1]
Chunks_short(body_lines, lpp) ==
  [p \in 1..((Len(body_lines) + lpp - 1) \div lpp) |->
     SubSeq(body_lines, (p - 1) * lpp + 1, Min(p * lpp - 1, Len(body_lines)))]

\* paginate: pages.append(body_lines[i : i + lines_per_page]) for i in range(...)
Chunks(body_lines, lpp) ==
  [p \in 1..((Len(body_lines) + lpp - 1) \div lpp) |->
     SubSeq(body_lines, (p - 1) * lpp + 1, Min(p * lpp, Len(body_lines)))]

\* PoemPaginator.paginate; c is the KioskConfig.  The record returned also
\* carries the locals body_lines and lines_per_page.
paginate(c, title, body, display_w, display_h) ==
  LET safe_title == sanitize_for_bitmap8(title)
      safe_body == sanitize_for_bitmap8(body)
      title_lines == wrap_words(safe_title, display_w, c.margin_px, c.title_scale,
                                c.line_spacing_px)
      body_lines == wrap_words(safe_body, display_w, c.margin_px, c.body_scale,
                               c.line_spacing_px)
      usable_h == display_h - (c.margin_px * 2)
      title_h == Len(title_lines) * line_height_bitmap8(c.title_scale, c.line_spacing_px)
                 + c.title_gap_px
      body_line_h == line_height_bitmap8(c.body_scale, c.line_spacing_px)
      body_h_per_page == Max(0, usable_h - title_h)
  IN IF body_line_h = 0
     THEN [raised |-> "ZeroDivisionError"]
     ELSE LET lpp == lines_per_page(body_h_per_page, body_line_h)
              pages == Chunks(body_lines, lpp)
          IN [raised |-> "", title_lines |-> title_lines, body_lines |-> body_lines,
              lines_per_page |-> lpp,
              pages |-> IF pages = <<>> THEN << <<>> >> ELSE pages]

\* ---- the library functions called on their own ----

kvars == <<pc, cfg, playlist, validIds, play_index, state, deadline_ms, poem,
           layout, page_i, touch_was_down, touch_state, direction, t0, clock,
           now, backlight, screen, obs, polls>>

\* the kiosk is not running
LibIdle ==
  /\ pc = "lib"
  /\ playlist = <<>> /\ validIds = {} /\ play_index = 0 /\ state = "LOAD"
  /\ deadline_ms = 0 /\ poem = 0 /\ layout = 0 /\ page_i = 0
  /\ touch_was_down = FALSE /\ touch_state = FALSE
  /\ screen = [kind |-> "blank"] /\ obs = NoObs /\ polls = <<>>

\* ... and no transition either
LibInit ==
  /\ LibIdle
  /\ cfg = [dwell_ms |-> 0, fade_ms |-> 0, backlight_min |-> 0, backlight_max |-> 100]
  /\ direction = "in" /\ t0 = 0 /\ clock = 0 /\ now = 0 /\ backlight = 0

\* bounds of the inputs
MaxText == 5
MaxBody == 3

Texts(chars, n) == UNION {[1..k -> chars] : k \in 0..n}

\* "i" and "m" (narrow, wide once upper-cased), space and newline
WrapChars == {NL, SP, 105, 109}
\* "i", newline, an ellipsis and an e-acute
BodyChars == {NL, 105, 8230, 233}
Titles == {<<>>, <<105>>, <<109, SP, 109>>, <<8220, 233>>}
\* twenty one-character lines
Body20 == [k \in 1..39 |-> IF k % 2 = 1 THEN 105 ELSE NL]

WrapCalls ==
  [op : {"wrap_words"}, text : Texts(WrapChars, MaxText), width : {3, 4},
   margin : {0, 1, 2}, scale : {1, 2}, spacing : {0, 1}]

\* tab, newline, unit separator, space, tilde, DEL, no-break space,
\* e-acute, an em dash and an ellipsis
SanitizeChars == {9, NL, 31, SP, 126, 127, 160, 233, 8212, 8230}
SanitizeCalls == [op : {"sanitize_for_bitmap8"}, s : Texts(SanitizeChars, MaxBody)]

PaginateCalls ==
  [op : {"paginate"}, title : Titles, body : Texts(BodyChars, MaxBody) \cup {Body20},
   display_w : {8}, display_h : {0, 30, 60},
   cfg : [margin_px : {0, 1}, line_spacing_px : {0, 2}, title_scale : {1},
          body_scale : {0, 1}, title_gap_px : {0, 8}]]

TextInit ==
  /\ LibInit
  /\ ret = NoCall
  /\ (call \in WrapCalls \/ call \in PaginateCalls \/ call \in SanitizeCalls)

CallWrapWords ==
  /\ call.op = "wrap_words" /\ ret = NoCall
  /\ ret' = [op |-> "wrap_words",
             lines |-> wrap_words(call.text, call.width, call.margin, call.scale,
                                  call.spacing)]
  /\ UNCHANGED <<kvars, call>>

CallPaginate ==
  /\ call.op = "paginate" /\ ret = NoCall
  /\ ret' = [op |-> "paginate",
             layout |-> paginate(call.cfg, call.title, call.body, call.display_w,
                                 call.display_h)]
  /\ UNCHANGED <<kvars, call>>

CallSanitize ==
  /\ call.op = "sanitize_for_bitmap8" /\ ret = NoCall
  /\ ret' = [op |-> "sanitize_for_bitmap8", out |-> sanitize_for_bitmap8(call.s)]
  /\ UNCHANGED <<kvars, call>>

TextNext == CallWrapWords \/ CallPaginate \/ CallSanitize

TextSpec == TextInit /\ [][TextNext]_vars

\* ---- BacklightFadeTransition on its own ----

FadeMsSet == {0, 2, 4}
FadePairs == {<<0, 100>>, <<20, 80>>}

idle == <<pc, playlist, validIds, play_index, state, deadline_ms, poem, layout,
          page_i, touch_was_down, touch_state, screen, obs, polls>>

\* BacklightFadeTransition.__init__
FadeInit ==
  /\ LibIdle
  /\ \E f \in FadeMsSet, b \in FadePairs :
       cfg = [dwell_ms |-> 0, fade_ms |-> f, backlight_min |-> b[1], backlight_max |-> b[2]]
  /\ direction = "in"
  /\ t0 = 0
  /\ clock \in 0..(TicksPeriod - 1)
  /\ now = clock
  /\ backlight = 0
  /\ call = [op |-> "transition"]
  /\ ret = NoCall

\* BacklightFadeTransition.start, d ms after the last clock reading
TStartStep(dir, d) ==
  /\ call.op = "transition"
  /\ direction' = dir
  /\ t0' = ticks_ms(clock, d)
  /\ clock' = t0'
  /\ ret' = [op |-> "start"]
  /\ UNCHANGED <<idle, cfg, now, backlight, call>>

\* BacklightFadeTransition.update(now_ms = ticks_ms()), d ms after the last
\* clock reading
TUpdateStep(d) ==
  /\ call.op = "transition"
  /\ now' = ticks_ms(clock, d)
  /\ clock' = now'
  /\ backlight' = UpdateBrightness(cfg, direction, t0, now')
  /\ ret' = [op |-> "update", done |-> UpdateDone(cfg, t0, now')]
  /\ UNCHANGED <<idle, cfg, direction, t0, call>>

TStart == \E dir \in {"in", "out"}, d \in 0..MaxStep : TStartStep(dir, d)
TUpdate == \E d \in 0..MaxStep : TUpdateStep(d)

FadeNext == TStart \/ TUpdate

FadeSpec == FadeInit /\ [][FadeNext]_vars

\* ---- PoetryLibrary.playlist and impl/kiosk.py build_playlist on their own ----

\* bound of the directory listing
MaxEntries == 3

\* A file name is <<stem, extension>>; stem 0 is the empty stem (".json"),
\* stems 1, 2, 3 are three poem ids in their string order.
PoemIds == {1, 2, 3}
Names == {<<0, "json">>, <<1, "txt">>} \cup {<<k, "json">> : k \in PoemIds}

Range(seq) == {seq[i] : i \in 1..Len(seq)}

\* what os.listdir can return: distinct names in any order
Listings ==
  {l \in UNION {[1..k -> Names] : k \in 0..MaxEntries} :
     \A i, j \in 1..Len(l) : l[i] = l[j] => i = j}

\* name.endswith(".json") and len(name) > 5
_is_json(name) == name[2] = "json" /\ name[1] # 0

\* name[:-5]
_basename_no_ext(name) == name[1]

\* the list left as the scan built it
unsorted_ids(ids) == ids

\* ids.sort()
sorted_ids(ids) == SortSeq(ids, LAMBDA a, b : a < b)

\* the loop over the entries: a missing photo is only printed, the id is
\* appended in either case
RECURSIVE ScanEntries(_, _, _, _)
ScanEntries(entries, photos, i, ids) ==
  IF i > Len(entries) THEN ids
  ELSE IF ~_is_json(entries[i]) THEN ScanEntries(entries, photos, i + 1, ids)
  ELSE LET poem_id == _basename_no_ext(entries[i])
           missing == poem_id \notin photos
       IN  IF missing
           THEN ScanEntries(entries, photos, i + 1, Append(ids, poem_id))
           ELSE ScanEntries(entries, photos, i + 1, Append(ids, poem_id))

\* build_playlist; dir_ok is FALSE when os.listdir raises OSError
build_playlist(dir_ok, entries, photos) ==
  IF ~dir_ok THEN <<>> ELSE sorted_ids(ScanEntries(entries, photos, 1, <<>>))

\* The random generator: a state in RngState, advanced by every draw.
RngState == 0..7
rng_next(x) == (5 * x + 3) % 8
\* random.randrange(n) in state x: the value drawn
randrange(x, n) == rng_next(x) % n
\* random.seed(seed): <<>> is None (seeded from entropy), <<k>> the integer k
random_seed(seed, entropy) == IF seed = <<>> THEN entropy ELSE (3 * seed[1] + 1) % 8
\* what an unseeded generator can start from
Entropy == {2, 7}

\* an exchange that writes only one side: items[i] = items[j]
Swap_overwrite(items, i, j) ==
  [k \in 1..Len(items) |-> IF k = i THEN items[j] ELSE items[k]]

\* items[i], items[j] = items[j], items[i]
Swap(items, i, j) ==
  [k \in 1..Len(items) |-> IF k = i THEN items[j] ELSE IF k = j THEN items[i] ELSE items[k]]

\* shuffle_in_place from index i (0-based) down to 1, generator in state x
RECURSIVE shuffle_in_place(_, _, _)
shuffle_in_place(items, i, x) ==
  IF i < 1 THEN [items |-> items, rng |-> x]
  ELSE LET j == randrange(x, i + 1)
       IN  shuffle_in_place(Swap(items, i + 1, j + 1), i - 1, rng_next(x))

\* list.remove: the first occurrence
RECURSIVE list_remove(_, _)
list_remove(ids, x) ==
  IF ids = <<>> THEN <<>>
  ELSE IF Head(ids) = x THEN Tail(ids)
  ELSE <<Head(ids)>> \o list_remove(Tail(ids), x)

\* the start id exchanged with whatever is at index 0
start_first_swap(ids, start) ==
  IF start # 0 /\ start \in Range(ids)
  THEN LET k == CHOOSE i \in 1..Len(ids) : ids[i] = start IN Swap(ids, 1, k)
  ELSE ids

\* ids.remove(start); ids.insert(0, start), when start is set and in ids
start_first(ids, start) ==
  IF start # 0 /\ start \in Range(ids)
  THEN <<start>> \o list_remove(ids, start)
  ELSE ids

\* PoetryLibrary.playlist with the generator in state x before the call
library_playlist(c, entries, x, entropy) ==
  LET ids == build_playlist(c.dir_ok, entries, c.photos)
  IN  IF ids = <<>>
      THEN [ids |-> ids, shuffled |-> <<>>, playlist |-> <<>>, rng |-> x]
      ELSE LET sh == shuffle_in_place(ids, Len(ids) - 1, random_seed(c.seed, entropy))
           IN  [ids |-> ids, shuffled |-> sh.items,
                playlist |-> start_first(sh.items, c.start_poem_id), rng |-> sh.rng]

Seeds == {<<>>, <<0>>, <<1>>}

PlaylistCalls ==
  [op : {"playlist"}, seed : Seeds, start_poem_id : {0} \cup PoemIds,
   dir_ok : {TRUE}, entries : Listings, photos : {{}, PoemIds}, rng : RngState]
    \cup
  [op : {"playlist"}, seed : Seeds, start_poem_id : {0} \cup PoemIds,
   dir_ok : {FALSE}, entries : {<<>>}, photos : {{}}, rng : RngState]

BuildCalls ==
  [op : {"build_playlist"}, dir_ok : {TRUE}, entries : Listings, photos : SUBSET PoemIds]
    \cup
  [op : {"build_playlist"}, dir_ok : {FALSE}, entries : {<<>>}, photos : {{}}]

PlaylistInit ==
  /\ LibInit
  /\ call \in PlaylistCalls \cup BuildCalls
  /\ ret = NoCall

\* the entropy random.seed draws from: none when the seed is given
EntropyOf(seed) == IF seed = <<>> THEN Entropy ELSE {0}

\* the same directory listed in another order
Reordered(l) ==
  {l, [k \in 1..Len(l) |-> l[Len(l) + 1 - k]]} \cup {Swap(l, i, i + 1) : i \in 1..(Len(l) - 1)}

\* lib.playlist(), the first call
CallPlaylist ==
  /\ call.op = "playlist"
  /\ ret = NoCall
  /\ \E entropy \in EntropyOf(call.seed) :
       LET r == library_playlist(call, call.entries, call.rng, entropy)
       IN  ret' = [op |-> "playlist", calls |-> 1, ids |-> r.ids, shuffled |-> r.shuffled,
                   playlist |-> r.playlist, rng |-> r.rng,
                   entries2 |-> <<>>, rng2 |-> 0, again |-> <<>>]
  /\ UNCHANGED <<kvars, call>>

\* lib.playlist() again: the listing may come in another order, and the
\* generator is as the first call left it or has been drawn from since
CallPlaylistAgain ==
  /\ ret.op = "playlist"
  /\ ret.calls = 1
  /\ \E entries2 \in Reordered(call.entries), x \in {ret.rng, rng_next(ret.rng)},
        entropy \in EntropyOf(call.seed) :
       LET r == library_playlist(call, entries2, x, entropy)
       IN  ret' = [ret EXCEPT !.calls = 2, !.entries2 = entries2, !.rng2 = x,
                              !.again = r.playlist]
  /\ UNCHANGED <<kvars, call>>

\* build_playlist(poems_dir, photos_dir)
CallBuildPlaylist ==
  /\ call.op = "build_playlist"
  /\ ret = NoCall
  /\ ret' = [op |-> "build_playlist",
             ids |-> build_playlist(call.dir_ok, call.entries, call.photos)]
  /\ UNCHANGED <<kvars, call>>

PlaylistNext == CallPlaylist \/ CallPlaylistAgain \/ CallBuildPlaylist

PlaylistSpec == PlaylistInit /\ [][PlaylistNext]_vars


\* ---- the claims ----

InFade == state \in {"FADE_IN", "DISPLAY", "FADE_OUT"}
AllValid == Len(playlist) > 0 /\ validIds = {playlist[i] : i \in 1..Len(playlist)}

\* C1: when loading the current entry fails, the machine advances play_index
\* and remains in LOAD; it does not enter FADE_IN until a load has succeeded.
C1_FailedLoadStaysInLoad ==
  [][(Load /\ ~obs'.loaded) =>
       (state' = "LOAD" /\ play_index' = next_poem(play_index, Len(playlist)))]_vars

\* C2: if loading entry i fails, the next entry whose load is attempted is
\* entry (i + 1) mod n.
C2_FailedLoadSkipsOne ==
  [][(Load /\ obs.attempt # -1 /\ ~obs.loaded) =>
       obs'.attempt = (obs.attempt + 1) % Len(playlist)]_vars

\* C3: the run state only changes along the cycle
\* LOAD -> FADE_IN -> DISPLAY -> FADE_OUT -> LOAD.
Successor(st) ==
  CASE st = "LOAD" -> "FADE_IN"
    [] st = "FADE_IN" -> "DISPLAY"
    [] st = "DISPLAY" -> "FADE_OUT"
    [] st = "FADE_OUT" -> "LOAD"
C3_StateCycle == [][state' = state \/ state' = Successor(state)]_vars
\* a whole cycle has been run: FADE_OUT has just returned to LOAD
C3_Witness == pc = "loop" /\ state = "LOAD" /\ obs.step = "fade_out"

\* C4: in DISPLAY, an iteration that detects a touch rising edge advances the
\* page with wrap, resets the deadline to now + dwell_ms, re-renders and
\* leaves the state DISPLAY, for every dwell_ms >= 0.  (Stated here for the
\* iterations that have a layout to page through.)
C4_TouchStaysInDisplay ==
  [][(Display /\ layout # 0 /\ touch_fired(touch_state', touch_was_down)) =>
       /\ page_i' = (page_i + 1) % layout
       /\ deadline_ms' = now' + cfg.dwell_ms
       /\ obs'.drew
       /\ state' = "DISPLAY"]_vars

\* C5 (as stated): every iteration in FADE_IN or FADE_OUT leaves page_index,
\* the dwell deadline and the rendered page unchanged and renders nothing.
C5_FadeLeavesDeadline ==
  [][(FadeIn \/ FadeOut) =>
       (UNCHANGED <<page_i, deadline_ms, screen>> /\ ~obs'.drew)]_vars

\* C5 (amended): every iteration in FADE_IN or FADE_OUT leaves page_index and
\* the rendered page unchanged, polls no touch and renders nothing; the dwell
\* deadline is unchanged too, except in the FADE_IN iteration that completes
\* the fade, which sets it to now + dwell_ms.
C5_FadeIgnoresTouch ==
  [][(FadeIn \/ FadeOut) =>
       /\ UNCHANGED <<page_i, screen, touch_was_down, touch_state, polls>>
       /\ ~obs'.drew /\ ~obs'.polled /\ ~obs'.fired
       /\ IF state = "FADE_IN" /\ state' = "DISPLAY"
          THEN deadline_ms' = now' + cfg.dwell_ms
          ELSE deadline_ms' = deadline_ms]_vars
\* a fade iteration has run after the touch went down in an earlier DISPLAY
C5_Witness ==
  /\ pc = "loop" /\ obs.step \in {"fade_in", "fade_out"}
  /\ touch_was_down /\ layout > 1 /\ page_i = 1

\* C6: _touch_event fires exactly when the down-state is true on this poll
\* and was false on the preceding poll (not down before the first poll); a
\* press held over any number of polls fires once, and the polls down, down,
\* up, down, begun with the touch up, give exactly two fires.
Whole(log) == Len(log) < PollWindow              \* nothing has left the window
UpBefore(log, i) == IF i = 1 THEN Whole(log) ELSE ~log[i - 1][1]
FiresIn(log, i, j) == Cardinality({k \in i..j : log[k][2]})
C6_EdgeTriggered ==
  /\ \A i \in 1..Len(polls) :
       (i > 1 \/ Whole(polls)) =>
         polls[i][2] = (polls[i][1] /\ UpBefore(polls, i))
  /\ \A i \in 1..Len(polls) : \A j \in i..Len(polls) :
       (UpBefore(polls, i) /\ \A k \in i..j : polls[k][1]) => FiresIn(polls, i, j) = 1
  /\ \A i \in 1..Len(polls) :
       (/\ i + Len(TapPattern) - 1 <= Len(polls)
        /\ UpBefore(polls, i)
        /\ \A k \in 1..Len(TapPattern) : polls[i + k - 1][1] = TapPattern[k])
       => FiresIn(polls, i, i + Len(TapPattern) - 1) = 2
\* the polls down, down, up, down have just happened after an up
C6_Witness ==
  /\ Len(polls) = PollWindow
  /\ ~polls[1][1]
  /\ \A k \in 1..Len(TapPattern) : polls[k + 1][1] = TapPattern[k]
  /\ obs.fired

\* C7: fade-in completion sets the deadline to now + dwell_ms; a DISPLAY
\* iteration without a touch fire keeps the deadline and starts the fade-out
\* exactly when now >= deadline; a touch fire sets the deadline to
\* now + dwell_ms.
C7_DwellTiming ==
  [][/\ (FadeIn /\ state' = "DISPLAY") => deadline_ms' = now' + cfg.dwell_ms
     /\ (Display /\ ~obs'.fired) =>
          /\ deadline_ms' = deadline_ms
          /\ (state' = "FADE_OUT") <=> (now' >= deadline_ms)
     /\ (Display /\ obs'.fired /\ pc' = "loop") =>
          deadline_ms' = now' + cfg.dwell_ms]_vars
\* the fade-out has been started by the deadline of a non-zero dwell, no touch
C7_Witness ==
  /\ state = "FADE_OUT" /\ obs.step = "display" /\ ~obs.fired
  /\ cfg.dwell_ms > 0 /\ now >= deadline_ms

\* C8: play_index < len(playlist), and in FADE_IN, DISPLAY and FADE_OUT a
\* layout exists and page_index < len(pages).
C8_IndicesInRange ==
  (pc \in {"loop", "crashed"}) =>
    /\ play_index < Len(playlist)
    /\ InFade => (layout # 0 /\ poem # 0 /\ page_i < layout)

\* C9: when fade-out completes play_index becomes (play_index + 1) mod n and
\* the state returns to LOAD; with all poems valid and the clock advancing,
\* every playlist entry is loaded infinitely often.  (Stated here for the
\* runs in which the touch is eventually left alone.)
C9_PlaybackRepeats ==
  /\ [][(FadeOut /\ state' = "LOAD") =>
          play_index' = (play_index + 1) % Len(playlist)]_vars
  /\ (AllValid /\ <>[](~touch_state)) =>
       \A i \in 0..(MaxPoems - 1) :
         []<>(i < Len(playlist) => (obs.step = "load" /\ obs.attempt = i /\ obs.loaded))

\* C10: with an empty playlist run() sets the backlight to backlight_max,
\* shows the status once and idles forever: no loop state is entered, no load
\* is attempted and the branch is never left.
C10_EmptyLibraryIdles ==
  /\ [](Len(playlist) = 0 => pc \in {"start", "idle"})
  /\ [](pc = "idle" =>
          /\ Len(playlist) = 0
          /\ backlight = set_backlight_0_100(cfg.backlight_max)
          /\ screen = [kind |-> "status"]
          /\ obs.attempt = -1 /\ state = "LOAD" /\ play_index = 0 /\ poem = 0)
  /\ [][pc = "idle" =>
          /\ pc' = "idle"
          /\ UNCHANGED <<screen, backlight, state, play_index, poem, layout, page_i,
                         deadline_ms, touch_was_down, touch_state, polls>>]_vars
\* the idle sleep has run
C10_Witness == pc = "idle" /\ obs.step = "sleep"

\* C11: the layout returned by paginate has len(pages) >= 1, and for empty
\* body text pages is exactly [[]].
C11_NonEmptyPagination ==
  (ret.op = "paginate" /\ ret.layout.raised = "") =>
    /\ Len(ret.layout.pages) >= 1
    /\ call.body = <<>> => ret.layout.pages = << <<>> >>

\* C12: for a text whose explicit lines each fit the usable width, with
\* single-space separated words and no leading or trailing spaces, the output
\* of wrap_words is the text split on the newline character.
PlainLine(line) ==
  /\ line = <<>> \/ (line[1] # SP /\ line[Len(line)] # SP)
  /\ \A i \in 1..(Len(line) - 1) : ~(line[i] = SP /\ line[i + 1] = SP)
PlainText(c) ==
  /\ c.width - 2 * c.margin > 0
  /\ \A i \in 1..Len(str_split(c.text, NL)) :
       LET line == str_split(c.text, NL)[i]
       IN PlainLine(line) /\ measure(line, c.scale, c.spacing) <= c.width - 2 * c.margin
C12_NewlinesPreserved ==
  (ret.op = "wrap_words" /\ PlainText(call)) => ret.lines = str_split(call.text, NL)

\* C13: for every text and usable width W > 0, every line returned by
\* wrap_words measures at most W, except a line of a single character that
\* alone measures more than W.
C13_WrapBound ==
  (ret.op = "wrap_words" /\ call.width - 2 * call.margin > 0) =>
    \A i \in 1..Len(ret.lines) :
      \/ measure(ret.lines[i], call.scale, call.spacing) <= call.width - 2 * call.margin
      \/ Len(ret.lines[i]) = 1
\* one word has been wrapped at character level: one of its characters is
\* wider than the line and stands alone, another one fits
C13_Witness ==
  /\ ret.op = "wrap_words" /\ call.width - 2 * call.margin > 0
  /\ \A i \in 1..Len(call.text) : ~IsSpace(call.text[i])
  /\ \E i \in 1..Len(ret.lines) :
       /\ Len(ret.lines[i]) = 1
       /\ measure(ret.lines[i], call.scale, call.spacing) > call.width - 2 * call.margin
  /\ \E i \in 1..Len(ret.lines) :
       /\ ret.lines[i] # <<>>
       /\ measure(ret.lines[i], call.scale, call.spacing) <= call.width - 2 * call.margin

\* C14: concatenating the pages gives exactly the body lines; every page but
\* the last has lines_per_page lines, the last between 1 and lines_per_page.
RECURSIVE Concat(_)
Concat(seqs) == IF seqs = <<>> THEN <<>> ELSE Head(seqs) \o Concat(Tail(seqs))
C14_ChunkedPages ==
  (ret.op = "paginate" /\ ret.layout.raised = "") =>
    LET pages == ret.layout.pages
        lpp == ret.layout.lines_per_page
    IN /\ Concat(pages) = ret.layout.body_lines
       /\ \A p \in 1..(Len(pages) - 1) : Len(pages[p]) = lpp
       /\ Len(pages) >= 1
       /\ 1 <= Len(pages[Len(pages)]) /\ Len(pages[Len(pages)]) <= lpp
\* 20 body lines at 5 per page have given 4 pages of 5
C14_Witness ==
  /\ ret.op = "paginate" /\ ret.layout.raised = ""
  /\ Len(ret.layout.body_lines) = 20 /\ ret.layout.lines_per_page = 5
  /\ Len(ret.layout.pages) = 4
  /\ \A p \in 1..4 : Len(ret.layout.pages[p]) = 5

\* C15: for every config with non-negative fields paginate yields a value,
\* with lines_per_page = max(1, floor((usable height - title_block_height) /
\* body_line_height)) >= 1.
C15_LinesPerPage ==
  (ret.op = "paginate") =>
    /\ ret.layout.raised = ""
    /\ LET c == call.cfg
           title_block == Len(ret.layout.title_lines) * (8 * c.title_scale + c.line_spacing_px)
                          + c.title_gap_px
           usable == call.display_h - 2 * c.margin_px
           floor == (usable - title_block) \div (8 * c.body_scale + c.line_spacing_px)
       IN /\ ret.layout.lines_per_page = (IF floor >= 1 THEN floor ELSE 1)
          /\ ret.layout.lines_per_page >= 1

StartBound == IF direction = "in" THEN cfg.backlight_min ELSE cfg.backlight_max
EndBound == IF direction = "in" THEN cfg.backlight_max ELSE cfg.backlight_min

\* C16 (as stated): update(now) with now < start returns false and applies
\* the start bound; update(start + duration) returns true and applies the end
\* bound, for every configured fade duration >= 0.
C16_ConfiguredEndpoints ==
  ret.op = "update" =>
    /\ now < t0 => (~ret.done /\ backlight = StartBound)
    /\ now = t0 + cfg.fade_ms => (ret.done /\ backlight = EndBound)

\* C16 (amended): the same, with the duration the transition runs with,
\* max(1, configured fade duration).
C16_Endpoints ==
  ret.op = "update" =>
    /\ now < t0 => (~ret.done /\ backlight = StartBound)
    /\ now = t0 + (IF cfg.fade_ms >= 1 THEN cfg.fade_ms ELSE 1) =>
         (ret.done /\ backlight = EndBound)
\* a fade-out configured with 0 ms has been updated 1 ms after its start
C16_Witness ==
  /\ ret.op = "update" /\ cfg.fade_ms = 0 /\ direction = "out"
  /\ now = t0 + 1 /\ ret.done /\ backlight = cfg.backlight_min /\ backlight > 0

\* C17: once update has returned true for a fade, every later update of the
\* same fade returns true and applies the same brightness.
C17_DoneStaysDone ==
  [][(TUpdate /\ ret.op = "update" /\ ret.done) =>
       (ret'.done /\ backlight' = backlight)]_vars

\* C18: when start_poem_id is supplied and is one of the available ids, the
\* playlist has it at index 0 for every seed and the other ids keep the
\* relative order the shuffle gave them; when it is not among the ids the
\* playlist is the plain shuffled order.
C18_StartIdFirst ==
  ret.op = "playlist" =>
    IF call.start_poem_id # 0 /\ call.start_poem_id \in Range(ret.ids)
    THEN /\ ret.playlist[1] = call.start_poem_id
         /\ Tail(ret.playlist) = SelectSeq(ret.shuffled, LAMBDA x : x # call.start_poem_id)
    ELSE ret.playlist = ret.shuffled

\* three ids, the start id shuffled to the last place and moved to the front
C18_Witness ==
  /\ ret.op = "playlist"
  /\ Len(ret.shuffled) = 3
  /\ ret.shuffled[3] = call.start_poem_id
  /\ ret.playlist = <<ret.shuffled[3], ret.shuffled[1], ret.shuffled[2]>>

\* C19: two calls of playlist() with the same available ids and the same
\* non-null seed return identical sequences, whatever order the directory
\* listing came in and whatever the random generator was used for before.
C19_PlaylistDeterministic ==
  (ret.op = "playlist" /\ ret.calls = 2 /\ call.seed # <<>>) => ret.again = ret.playlist

\* the second call saw another listing order and another generator state,
\* and the playlist of three ids is not in sorted order
C19_Witness ==
  /\ ret.op = "playlist" /\ ret.calls = 2 /\ call.seed # <<>>
  /\ ret.entries2 # call.entries
  /\ ret.rng2 # call.rng
  /\ Len(ret.again) = 3
  /\ ret.again # ret.ids
  /\ ret.again = ret.playlist

\* C20: an id is in the list build_playlist returns if and only if poems_dir
\* contains <id>.json and photos_dir contains <id>.jpg.
C20_OnlyWithPhoto ==
  (ret.op = "build_playlist" /\ call.dir_ok) =>
    \A id \in PoemIds :
      id \in Range(ret.ids) <=> (<<id, "json">> \in Range(call.entries) /\ id \in call.photos)

\* C21: every character of sanitize_for_bitmap8's output is a newline or
\* printable ASCII 32..126, and no title or body line of a layout holds any
\* other character.
Renderable(str) == \A i \in 1..Len(str) : str[i] = NL \/ (32 <= str[i] /\ str[i] <= 126)

C21_RenderableOnly ==
  /\ ret.op = "sanitize_for_bitmap8" => Renderable(ret.out)
  /\ (ret.op = "paginate" /\ ret.layout.raised = "") =>
       /\ \A i \in 1..Len(ret.layout.title_lines) : Renderable(ret.layout.title_lines[i])
       /\ \A p \in 1..Len(ret.layout.pages) :
            \A i \in 1..Len(ret.layout.pages[p]) : Renderable(ret.layout.pages[p][i])

\* a title and a body with characters outside ASCII were laid out: the
\* e-acute became "?", the ellipsis three dots
C21_Witness ==
  /\ ret.op = "paginate" /\ ret.layout.raised = ""
  /\ call.title = <<8220, 233>>
  /\ ret.layout.title_lines = << <<34, QUESTION>> >>
  /\ call.body = <<233, NL, 8230>>
  /\ ret.layout.body_lines = << <<QUESTION>>, <<46, 46, 46>> >>

\* C27 as stated: for every text, width and margin, the non-whitespace
\* characters of the output lines, read in order, are those of the input.
NonSpace(str) == SelectSeq(str, LAMBDA c : ~IsSpace(c))

C27_NoTextLost ==
  ret.op = "wrap_words" => NonSpace(Concat(ret.lines)) = NonSpace(call.text)

\* C27: for every text and every width and margin that leave a usable width
\* above zero, the non-whitespace characters of the output lines, read in
\* order, are those of the input.
C27_NoTextLostWhenUsable ==
  (ret.op = "wrap_words" /\ call.width - 2 * call.margin > 0) =>
    NonSpace(Concat(ret.lines)) = NonSpace(call.text)

\* "mmm i" at width 4: the word is split as "mm" + "m" and the line goes on
\* with the next word, "m i"
C27_Witness ==
  /\ ret.op = "wrap_words"
  /\ call.width - 2 * call.margin = 4
  /\ call.text = <<109, 109, 109, SP, 105>>
  /\ ret.lines = << <<109, 109>>, <<109, SP, 105>> >>

\* C26: for every seed and start id the playlist is a permutation of the ids
\* build_playlist returned: same length, every id exactly once.
Count(seq, x) == Cardinality({i \in 1..Len(seq) : seq[i] = x})

C26_PlaylistIsPermutation ==
  ret.op = "playlist" =>
    /\ Len(ret.playlist) = Len(ret.ids)
    /\ \A id \in PoemIds \cup {0} : Count(ret.playlist, id) = Count(ret.ids, id)
    /\ \A id \in Range(ret.ids) : Count(ret.playlist, id) = 1

\* three ids, really shuffled, and the start id then moved from the middle
C26_Witness ==
  /\ ret.op = "playlist" /\ ret.calls = 1
  /\ Len(ret.ids) = 3
  /\ ret.shuffled # ret.ids
  /\ ret.shuffled[2] = call.start_poem_id
  /\ ret.playlist # ret.shuffled

\* C25: with backlight_min <= backlight_max every brightness update applies
\* lies in [backlight_min, backlight_max] (50 at the midpoint for 0..100),
\* and from one update of a fade to the next with a larger or equal now the
\* brightness does not decrease for direction "in" and does not increase
\* for direction "out".
C25_BrightnessBoundedMonotone ==
  [][(TUpdate /\ cfg.backlight_min <= cfg.backlight_max) =>
       /\ cfg.backlight_min <= backlight' /\ backlight' <= cfg.backlight_max
       /\ (cfg.backlight_min = 0 /\ cfg.backlight_max = 100
             /\ 2 * (now' - t0) = (IF cfg.fade_ms >= 1 THEN cfg.fade_ms ELSE 1))
            => backlight' = 50
       /\ (ret.op = "update" /\ now' >= now) =>
            IF direction = "in" THEN backlight' >= backlight ELSE backlight' <= backlight]_vars

\* a quarter of the way through a fade out from 80 to 20: 80 - 60 * 0.15625,
\* truncated, after an update of the same fade that applied 80
C25_Witness ==
  /\ ret.op = "update" /\ direction = "out"
  /\ cfg.backlight_min = 20 /\ cfg.backlight_max = 80 /\ cfg.fade_ms = 4
  /\ now = t0 + 1
  /\ backlight = 70

\* C24: while the loop keeps running and the tick counter keeps advancing,
\* FADE_IN always eventually reaches DISPLAY and FADE_OUT always eventually
\* reaches LOAD, at the latest in the first iteration that reads the counter
\* fade_ms or more after the start of the fade (a fade lasts 1 ms at least).
FadeLength == IF cfg.fade_ms >= 1 THEN cfg.fade_ms ELSE 1

C24_FadesTerminate ==
  /\ [][(FadeIn /\ now' - t0 >= FadeLength) => state' = "DISPLAY"]_vars
  /\ [][(FadeOut /\ now' - t0 >= FadeLength) => state' = "LOAD"]_vars
  /\ (state = "FADE_IN") ~> (state = "DISPLAY")
  /\ (state = "FADE_OUT") ~> (state = "LOAD")

\* C22: at every render the photo drawn is the one of the poem whose title
\* and body lines are drawn: the poem held is the one loaded from
\* playlist[play_index].
C22_TextAndPhotoPaired ==
  obs.drew => (screen.kind = "poem" /\ screen.photo = screen.text)

\* C23: every render in LOAD happens at backlight_min and shows page 0 of the
\* poem that iteration loaded, the level applied when FADE_OUT completes is
\* backlight_min, and the poem on the screen changes only at backlight_min.
C23_SwappedInTheDark ==
  [][/\ (Load /\ obs'.drew) =>
          /\ backlight' = cfg.backlight_min
          /\ obs'.loaded
          /\ screen'.text = playlist[play_index + 1]
          /\ screen'.page = 0
     /\ (FadeOut /\ state' = "LOAD") => backlight' = cfg.backlight_min
     /\ (screen.kind = "poem" /\ screen'.kind = "poem" /\ screen'.text # screen.text) =>
          (backlight' = cfg.backlight_min /\ screen'.backlight = cfg.backlight_min)]_vars

====
